---------------------------- MODULE Spec2Model ----------------------------
(***************************************************************************)
(* A model of the minetestworld storage-access layer:                      *)
(*   - the addressing arithmetic of src/src/positions.rs and the constants *)
(*     of src/src/lib.rs, on fixed-width two's-complement integers;        *)
(*   - the write-back edit cache MapEdit of src/src/voxel_manip.rs over a  *)
(*     key-value backend.                                                  *)
(***************************************************************************)
EXTENDS Integers, Sequences, FiniteSets, TLC

(***************************************************************************)
(* Fixed-width integers.  An i16 / u16 is a TLA+ integer in its range.  An *)
(* i64 is four 16-bit limbs <<l0, l1, l2, l3>>, least significant first,   *)
(* holding the two's-complement bit pattern.                               *)
(***************************************************************************)
\* 2^n for 0 <= n <= 16
Pow2(n) == 2^n

\* F applied to the value of e, which is evaluated once
Strict(e, F(_)) == CHOOSE r \in {F(x) : x \in {e}} : TRUE

\* `as u16`: keep the low 16 bits
AsU16(n) == n % 65536

\* `as i16`: keep the low 16 bits, read as two's complement
AsI16(n) == LET u == n % 65536 IN IF u >= 32768 THEN u - 65536 ELSE u

\* bitwise AND of two 16-bit patterns: bit i of x is (x \div 2^i) % 2
BitAnd(a, b) ==
      1 * ((a \div 1) % 2) * ((b \div 1) % 2)
    + 2 * ((a \div 2) % 2) * ((b \div 2) % 2)
    + 4 * ((a \div 4) % 2) * ((b \div 4) % 2)
    + 8 * ((a \div 8) % 2) * ((b \div 8) % 2)
    + 16 * ((a \div 16) % 2) * ((b \div 16) % 2)
    + 32 * ((a \div 32) % 2) * ((b \div 32) % 2)
    + 64 * ((a \div 64) % 2) * ((b \div 64) % 2)
    + 128 * ((a \div 128) % 2) * ((b \div 128) % 2)
    + 256 * ((a \div 256) % 2) * ((b \div 256) % 2)
    + 512 * ((a \div 512) % 2) * ((b \div 512) % 2)
    + 1024 * ((a \div 1024) % 2) * ((b \div 1024) % 2)
    + 2048 * ((a \div 2048) % 2) * ((b \div 2048) % 2)
    + 4096 * ((a \div 4096) % 2) * ((b \div 4096) % 2)
    + 8192 * ((a \div 8192) % 2) * ((b \div 8192) % 2)
    + 16384 * ((a \div 16384) % 2) * ((b \div 16384) % 2)
    + 32768 * ((a \div 32768) % 2) * ((b \div 32768) % 2)

I16And(a, b) == AsI16(BitAnd(AsU16(a), AsU16(b)))
\* i16 << n discards the bits shifted out (n < 16)
I16Shl(a, n) == AsI16(a * Pow2(n))
\* i16 >> n is an arithmetic shift
I16Shr(a, n) == a \div Pow2(n)
I16WrappingAdd(a, b) == AsI16(a + b)
\* a + b on i16: `fits` tells whether the sum is representable (a debug build
\* panics when it is not, a release build wraps to `val`)
I16Add(a, b) == [fits |-> (a + b >= -32768 /\ a + b <= 32767), val |-> AsI16(a + b)]

U16And(a, b) == BitAnd(a, b)
U16Shl(a, n) == AsU16(a * Pow2(n))
U16Shr(a, n) == a \div Pow2(n)

\* i64 from an integer of at most 32 bits (sign extended)
I64FromInt(n) ==
    LET f == IF n < 0 THEN 65535 ELSE 0
    IN  <<n % 65536, (n \div 65536) % 65536, f, f>>

I64Zero == <<0, 0, 0, 0>>

\* wrapping addition, limb by limb with carry
I64WrappingAdd(a, b) ==
    LET s1 == a[1] + b[1]
        s2 == a[2] + b[2] + (s1 \div 65536)
        s3 == a[3] + b[3] + (s2 \div 65536)
        s4 == a[4] + b[4] + (s3 \div 65536)
    IN  <<s1 % 65536, s2 % 65536, s3 % 65536, s4 % 65536>>

I64Not(a) == <<65535 - a[1], 65535 - a[2], 65535 - a[3], 65535 - a[4]>>
I64Neg(a) == I64WrappingAdd(I64Not(a), I64FromInt(1))
I64WrappingSub(a, b) == I64WrappingAdd(a, I64Neg(b))

I64IsNeg(a) == a[4] >= 32768

\* signed comparison a < b
I64Less(a, b) ==
    LET ta == IF a[4] >= 32768 THEN a[4] - 65536 ELSE a[4]
        tb == IF b[4] >= 32768 THEN b[4] - 65536 ELSE b[4]
    IN  \/ ta < tb
        \/ ta = tb /\ a[3] < b[3]
        \/ ta = tb /\ a[3] = b[3] /\ a[2] < b[2]
        \/ ta = tb /\ a[3] = b[3] /\ a[2] = b[2] /\ a[1] < b[1]

I64LessEq(a, b) == a = b \/ I64Less(a, b)

\* shift left by whole limbs
I64ShlLimbs(a, k) ==
    [i \in 1..4 |-> IF i - k >= 1 THEN a[i - k] ELSE 0]

\* shift left by n bits, 0 <= n < 64; bits shifted out are discarded
I64Shl(a, n) ==
    LET k == n \div 16
        r == n % 16
        w == I64ShlLimbs(a, k)
        lo(i) == IF i >= 1 THEN w[i] \div Pow2(16 - r) ELSE 0
    IN  [i \in 1..4 |-> ((w[i] * Pow2(r)) % 65536) + (IF r = 0 THEN 0 ELSE lo(i - 1))]

\* arithmetic shift right by n bits, 0 <= n < 64
I64Shr(a, n) ==
    LET k == n \div 16
        r == n % 16
        f == IF I64IsNeg(a) THEN 65535 ELSE 0
        w == [i \in 1..5 |-> IF i + k <= 4 THEN a[i + k] ELSE f]
    IN  [i \in 1..4 |-> (w[i] \div Pow2(r)) + ((w[i + 1] % Pow2(r)) * Pow2(16 - r))]

\* a * m for a multiplier 0 <= m < 256, limb by limb with carry
I64MulByte(a, m) ==
    LET p1 == a[1] * m
        p2 == a[2] * m + (p1 \div 65536)
        p3 == a[3] * m + (p2 \div 65536)
        p4 == a[4] * m + (p3 \div 65536)
    IN  <<p1 % 65536, p2 % 65536, p3 % 65536, p4 % 65536>>

\* byte j (0..7) of the bit pattern
I64Byte(b, j) == (b[(j \div 2) + 1] \div (IF j % 2 = 1 THEN 256 ELSE 1)) % 256

\* wrapping multiplication: the sum over the bytes of b of (a * byte) << 8j
I64Mul(a, b) ==
    LET t(j) == I64Shl(I64MulByte(a, I64Byte(b, j)), 8 * j)
    IN  I64WrappingAdd(I64WrappingAdd(I64WrappingAdd(t(0), t(1)), I64WrappingAdd(t(2), t(3))),
                       I64WrappingAdd(I64WrappingAdd(t(4), t(5)), I64WrappingAdd(t(6), t(7))))

\* `as i64` of an i16 (sign extension) and `as i16` of an i64 (truncation)
I16AsI64(x) == I64FromInt(x)
I64AsI16(a) == AsI16(a[1])

(***************************************************************************)
(* Constants of src/src/lib.rs                                             *)
(***************************************************************************)
I16_BITS == 16
I16_MIN == -32768
I16_MAX == -I16_MIN - 1
WORLD_BITS_1D == I16_BITS
NODE_BITS_1D == 4
NODE_MASK == Pow2(NODE_BITS_1D) - 1
BLOCK_BITS_1D == WORLD_BITS_1D - NODE_BITS_1D
BLOCK_MASK == I16Shl(-1, NODE_BITS_1D)
BLOCK_NODES_1D == Pow2(NODE_BITS_1D)
WORLD_BLOCKS_1D == Pow2(BLOCK_BITS_1D)
WORLD_BLOCKS_MIN == I16Shl(-1, BLOCK_BITS_1D - 1)
WORLD_BLOCKS_MAX == Pow2(BLOCK_BITS_1D - 1) - 1
\* WORLD_BLOCKS_MIN..(1 << (BLOCK_BITS_1D - 1)), a half-open Range<i16>
WORLD_BLOCKS_RANGE_contains(x) == WORLD_BLOCKS_MIN <= x /\ x < Pow2(BLOCK_BITS_1D - 1)
DIAGONAL_KEY_STRIDE ==
    I64WrappingAdd(I64WrappingAdd(I64FromInt(1), I64FromInt(WORLD_BLOCKS_1D)),
                   I64Mul(I64FromInt(WORLD_BLOCKS_1D), I64FromInt(WORLD_BLOCKS_1D)))
BLOCK_KEY_MIN == I64Mul(I16AsI64(WORLD_BLOCKS_MIN), DIAGONAL_KEY_STRIDE)
BLOCK_KEY_MAX == I64Mul(I16AsI64(WORLD_BLOCKS_MAX), DIAGONAL_KEY_STRIDE)
\* BLOCK_KEY_MIN..(BLOCK_KEY_MAX + 1), a half-open Range<i64>
BLOCK_KEY_RANGE_contains(k) ==
    I64LessEq(BLOCK_KEY_MIN, k) /\ I64Less(k, I64WrappingAdd(BLOCK_KEY_MAX, I64FromInt(1)))
BLOCK_NODES_3D == Pow2(NODE_BITS_1D * 3)

(***************************************************************************)
(* src/src/positions.rs.  An I16Vec3 / U16Vec3 is a triple <<x, y, z>>; a  *)
(* BlockPos, NodePos, BlockKey or NodeIndex is the value it wraps.  A      *)
(* fallible conversion returns [ok |-> TRUE, val |-> v] or [ok |-> FALSE]. *)
(***************************************************************************)
Ok(v) == [ok |-> TRUE, val |-> v]
Err == [ok |-> FALSE]

\* impl TryFrom<i64> for BlockKey
BlockKey_try_from(value) ==
    IF BLOCK_KEY_RANGE_contains(value) THEN Ok(value) ELSE Err

\* BlockPos::into_index_vec
BlockPos_into_index_vec(self) ==
    <<I16Shr(self[1], NODE_BITS_1D), I16Shr(self[2], NODE_BITS_1D), I16Shr(self[3], NODE_BITS_1D)>>

\* BlockPos::from_index_vec
BlockPos_from_index_vec(vec) ==
    <<I16Shl(vec[1], NODE_BITS_1D), I16Shl(vec[2], NODE_BITS_1D), I16Shl(vec[3], NODE_BITS_1D)>>

\* From<BlockKey> for BlockPos taking the three 12-bit fields of the key as
\* they are, with no shift of the key range to zero
BlockPos_from_BlockKey_unbiased(value) ==
    <<I16Shl(I64AsI16(value), NODE_BITS_1D),
      I16Shl(I64AsI16(I64Shr(value, BLOCK_BITS_1D)), NODE_BITS_1D),
      I16Shl(I64AsI16(I64Shr(value, BLOCK_BITS_1D * 2)), NODE_BITS_1D)>>

\* impl From<BlockKey> for BlockPos
BlockPos_from_BlockKey(value) ==
    LET i == I64WrappingSub(value, BLOCK_KEY_MIN)
        lsb_aligned == <<i, I64Shr(i, BLOCK_BITS_1D), I64Shr(i, BLOCK_BITS_1D * 2)>>
        truncated == <<I64AsI16(lsb_aligned[1]), I64AsI16(lsb_aligned[2]), I64AsI16(lsb_aligned[3])>>
        msb_aligned == <<I16Shl(truncated[1], NODE_BITS_1D), I16Shl(truncated[2], NODE_BITS_1D),
                         I16Shl(truncated[3], NODE_BITS_1D)>>
    IN  <<I16WrappingAdd(msb_aligned[1], I16_MIN), I16WrappingAdd(msb_aligned[2], I16_MIN),
          I16WrappingAdd(msb_aligned[3], I16_MIN)>>

\* impl TryFrom<I16Vec3> for BlockPos
BlockPos_try_from(value) ==
    IF /\ WORLD_BLOCKS_RANGE_contains(value[1])
       /\ WORLD_BLOCKS_RANGE_contains(value[2])
       /\ WORLD_BLOCKS_RANGE_contains(value[3])
    THEN Ok(value) ELSE Err

\* From<BlockPos> for BlockKey without the shift from node to block units
BlockKey_from_BlockPos_unshifted(value) ==
    I64WrappingAdd(I64WrappingAdd(I16AsI64(value[1]), I64Shl(I16AsI64(value[2]), BLOCK_BITS_1D)),
                   I64Shl(I16AsI64(value[3]), BLOCK_BITS_1D * 2))

\* impl From<BlockPos> for BlockKey
BlockKey_from_BlockPos(value) ==
    LET temp == <<I16AsI64(I16Shr(value[1], NODE_BITS_1D)), I16AsI64(I16Shr(value[2], NODE_BITS_1D)),
                  I16AsI64(I16Shr(value[3], NODE_BITS_1D))>>
    IN  I64WrappingAdd(I64WrappingAdd(temp[1], I64Shl(temp[2], BLOCK_BITS_1D)),
                       I64Shl(temp[3], BLOCK_BITS_1D * 2))

\* impl FromRow<SqliteRow> for BlockPos: the pos column is wrapped unchecked
BlockKey_from_row(pos) == pos
BlockPos_from_row(pos) == BlockPos_from_BlockKey(BlockKey_from_row(pos))

\* impl TryFrom<u16> for NodeIndex
NodeIndex_try_from(value) == IF value < BLOCK_NODES_3D THEN Ok(value) ELSE Err

\* impl TryFrom<U16Vec3> for NodePos
NodePos_try_from(value) ==
    IF value[1] < BLOCK_NODES_1D /\ value[2] < BLOCK_NODES_1D /\ value[3] < BLOCK_NODES_1D
    THEN Ok(value) ELSE Err

\* impl From<NodeIndex> for NodePos
NodePos_from_NodeIndex(node_index) ==
    <<U16And(node_index, NODE_MASK),
      U16And(U16Shr(node_index, NODE_BITS_1D), NODE_MASK),
      U16And(U16Shr(node_index, NODE_BITS_1D * 2), NODE_MASK)>>

\* From<NodePos> for NodeIndex with the shifts of y and z exchanged
NodeIndex_from_NodePos_swapped(value) ==
    LET s == value[1] + U16Shl(value[2], 8) + U16Shl(value[3], 4)
    IN  [fits |-> s < 65536, val |-> AsU16(s)]

\* impl From<NodePos> for NodeIndex; `fits` is false when a u16 sum overflows
NodeIndex_from_NodePos(value) ==
    LET s == value[1] + U16Shl(value[2], 4) + U16Shl(value[3], 8)
    IN  [fits |-> s < 65536, val |-> AsU16(s)]

\* split whose node part is masked with BLOCK_NODES_1D in place of NODE_MASK
split_wide_mask(self) ==
    [block |-> <<I16And(self[1], BLOCK_MASK), I16And(self[2], BLOCK_MASK), I16And(self[3], BLOCK_MASK)>>,
     node  |-> <<U16And(AsU16(self[1]), BLOCK_NODES_1D), U16And(AsU16(self[2]), BLOCK_NODES_1D),
                 U16And(AsU16(self[3]), BLOCK_NODES_1D)>>]

\* impl SplitPos for I16Vec3: split
split(self) ==
    [block |-> <<I16And(self[1], BLOCK_MASK), I16And(self[2], BLOCK_MASK), I16And(self[3], BLOCK_MASK)>>,
     node  |-> <<U16And(AsU16(self[1]), NODE_MASK), U16And(AsU16(self[2]), NODE_MASK),
                 U16And(AsU16(self[3]), NODE_MASK)>>]

\* impl SplitPos for I16Vec3: join (node_pos.0.as_i16vec3() added to block_pos.0)
join(block_pos, node_pos) ==
    LET x == I16Add(block_pos[1], AsI16(node_pos[1]))
        y == I16Add(block_pos[2], AsI16(node_pos[2]))
        z == I16Add(block_pos[3], AsI16(node_pos[3]))
    IN  [fits |-> x.fits /\ y.fits /\ z.fits, val |-> <<x.val, y.val, z.val>>]

(***************************************************************************)
(* The inputs the conversions are applied to.                              *)
(***************************************************************************)
\* how far around each boundary value the per-axis samples reach
MaxOff == 0
\* how many conversions are applied in a row to one input
MaxChain == 3

\* per-axis i16 samples: the values next to the i16, block-index and
\* block-alignment boundaries
AxisEdges == {I16_MIN, WORLD_BLOCKS_MIN, 0, BLOCK_NODES_1D, WORLD_BLOCKS_MAX + 1, I16_MAX + 1}
AxisSamples ==
    {x \in UNION {{e + d, e - 1 - d} : e \in AxisEdges, d \in 0..MaxOff} :
        I16_MIN <= x /\ x <= I16_MAX}
I16Vec3Samples == AxisSamples \X AxisSamples \X AxisSamples

\* key = x + 4096 * y + 4096 * 4096 * z, by multiplication
RefKey(x, y, z) ==
    I64WrappingAdd(I64WrappingAdd(I16AsI64(x), I64Mul(I64FromInt(4096), I16AsI64(y))),
                   I64Mul(I64Mul(I64FromInt(4096), I64FromInt(4096)), I16AsI64(z)))

IndexSamples ==
    {x \in UNION {{e + d, e - 1 - d} : e \in {WORLD_BLOCKS_MIN, 0, WORLD_BLOCKS_MAX + 1}, d \in 0..MaxOff} :
        WORLD_BLOCKS_MIN <= x /\ x <= WORLD_BLOCKS_MAX}
I64_MIN == <<0, 0, 0, 32768>>
I64_MAX == <<65535, 65535, 65535, 32767>>
\* raw i64 samples: around the key range's ends and zero, the i64 extremes,
\* the keys of src/src/tests.rs, and the keys of the sampled index triples
I64Samples ==
    UNION {{I64WrappingAdd(e, I64FromInt(d)), I64WrappingSub(e, I64FromInt(d + 1))} :
               e \in {BLOCK_KEY_MIN, I64Zero, I64WrappingAdd(BLOCK_KEY_MAX, I64FromInt(1))},
               d \in 0..MaxOff}
    \cup {I64_MIN, I64_MAX, I64FromInt(134270984), I64FromInt(-184549374)}
    \cup {RefKey(t[1], t[2], t[3]) : t \in IndexSamples \X IndexSamples \X IndexSamples}

\* u16 samples: every node index, and the values past the end
U16Samples == 0..(BLOCK_NODES_3D + MaxOff) \cup {65535}
U16AxisSamples == 0..(BLOCK_NODES_1D + MaxOff) \cup {65535}
U16Vec3Samples == U16AxisSamples \X U16AxisSamples \X U16AxisSamples

VARIABLES
    db,         \* the backend: block position -> stored row
    cache,      \* session -> its MapEdit's mapblock_cache
    ret,        \* the call that returned last: session, name, arguments and result
    ops,        \* the number of calls that have returned (of calls made, where tasks share
                \* one MapEdit)
    written,    \* history: session, position -> what the session's setters set last, by field
    durable     \* history: due, position -> the content committed there and not written
                \* over since; over, session -> the blocks another session has written
                \* since the session called the commit it has in flight

VARIABLES
    hist    \* the conversions applied so far to the current input, oldest first

VARIABLES
    fut,    \* task -> the call it has in flight, with the place it is suspended at
    lock    \* block position -> the tasks holding the guard of that entry's mutex, where
            \* tasks share one MapEdit

\* the typed values a conversion result offers to the next conversion
BlockPosIn(r) ==
    IF r.t = "BlockPos" THEN {r.v}
    ELSE IF r.t = "Split" THEN {r.block}
    ELSE IF r.t = "Row" THEN {r.pos} ELSE {}
BlockKeyIn(r) ==
    IF r.t = "BlockKey" THEN {r.v} ELSE IF r.t = "Row" THEN {r.key} ELSE {}
NodePosIn(r) ==
    IF r.t = "NodePos" THEN {r.v} ELSE IF r.t = "Split" THEN {r.node} ELSE {}
NodeIndexIn(r) == IF r.t = "NodeIndex" THEN {r.v} ELSE {}

Last == hist[Len(hist)]
Calc(op, arg, res) == [op |-> op, arg |-> arg, res |-> res]
\* the first conversion takes a fresh input, each later one the result before it
CanStart == hist = <<>>
CanChain == hist # <<>> /\ Len(hist) < MaxChain

Tagged(t, r) == IF r.ok THEN [t |-> t, v |-> r.val] ELSE [t |-> "Err"]

\* v.split()
DoSplit ==
    /\ CanStart
    /\ \E v \in I16Vec3Samples :
          LET r == split(v)
          IN  hist' = <<Calc("split", v, [t |-> "Split", block |-> r.block, node |-> r.node])>>
    /\ UNCHANGED <<db, cache, ret, ops, written, durable, fut, lock>>

\* I16Vec3::join(block, node) on the two halves of a split
DoJoin ==
    /\ CanChain
    /\ Last.res.t = "Split"
    /\ LET r == join(Last.res.block, Last.res.node)
       IN  hist' = Append(hist, Calc("join", <<Last.res.block, Last.res.node>>,
                                     [t |-> "I16Vec3", v |-> r.val, fits |-> r.fits]))
    /\ UNCHANGED <<db, cache, ret, ops, written, durable, fut, lock>>

\* BlockKey::try_from(k)
DoBlockKeyTryFrom ==
    /\ CanStart
    /\ \E k \in I64Samples :
          hist' = <<Calc("BlockKey_try_from", k, Tagged("BlockKey", BlockKey_try_from(k)))>>
    /\ UNCHANGED <<db, cache, ret, ops, written, durable, fut, lock>>

\* BlockPos::from(key)
DoBlockPosFromBlockKey ==
    /\ CanChain
    /\ \E k \in BlockKeyIn(Last.res) :
          hist' = Append(hist, Calc("BlockPos_from_BlockKey", k,
                                    [t |-> "BlockPos", v |-> BlockPos_from_BlockKey(k)]))
    /\ UNCHANGED <<db, cache, ret, ops, written, durable, fut, lock>>

\* BlockKey::from(pos)
DoBlockKeyFromBlockPos ==
    /\ CanChain
    /\ \E p \in BlockPosIn(Last.res) :
          hist' = Append(hist, Calc("BlockKey_from_BlockPos", p,
                                    [t |-> "BlockKey", v |-> BlockKey_from_BlockPos(p)]))
    /\ UNCHANGED <<db, cache, ret, ops, written, durable, fut, lock>>

\* BlockPos::from_index_vec(vec)
DoBlockPosFromIndexVec ==
    /\ CanStart
    /\ \E v \in I16Vec3Samples :
          hist' = <<Calc("BlockPos_from_index_vec", v,
                         [t |-> "BlockPos", v |-> BlockPos_from_index_vec(v)])>>
    /\ UNCHANGED <<db, cache, ret, ops, written, durable, fut, lock>>

\* BlockPos::try_from(vec)
DoBlockPosTryFrom ==
    /\ CanStart
    /\ \E v \in I16Vec3Samples :
          hist' = <<Calc("BlockPos_try_from", v, Tagged("BlockPos", BlockPos_try_from(v)))>>
    /\ UNCHANGED <<db, cache, ret, ops, written, durable, fut, lock>>

\* BlockPos::from_row(row) of a backend row whose pos column is k
DoBlockPosFromRow ==
    /\ CanStart
    /\ \E k \in I64Samples :
          hist' = <<Calc("BlockPos_from_row", k,
                         [t |-> "Row", key |-> BlockKey_from_row(k), pos |-> BlockPos_from_row(k)])>>
    /\ UNCHANGED <<db, cache, ret, ops, written, durable, fut, lock>>

\* NodeIndex::try_from(i)
DoNodeIndexTryFrom ==
    /\ CanStart
    /\ \E i \in U16Samples :
          hist' = <<Calc("NodeIndex_try_from", i, Tagged("NodeIndex", NodeIndex_try_from(i)))>>
    /\ UNCHANGED <<db, cache, ret, ops, written, durable, fut, lock>>

\* NodePos::try_from(vec)
DoNodePosTryFrom ==
    /\ CanStart
    /\ \E v \in U16Vec3Samples :
          hist' = <<Calc("NodePos_try_from", v, Tagged("NodePos", NodePos_try_from(v)))>>
    /\ UNCHANGED <<db, cache, ret, ops, written, durable, fut, lock>>

\* NodePos::from(index)
DoNodePosFromNodeIndex ==
    /\ CanChain
    /\ \E i \in NodeIndexIn(Last.res) :
          hist' = Append(hist, Calc("NodePos_from_NodeIndex", i,
                                    [t |-> "NodePos", v |-> NodePos_from_NodeIndex(i)]))
    /\ UNCHANGED <<db, cache, ret, ops, written, durable, fut, lock>>

\* NodeIndex::from(pos)
DoNodeIndexFromNodePos ==
    /\ CanChain
    /\ \E p \in NodePosIn(Last.res) :
          LET r == NodeIndex_from_NodePos(p)
          IN  hist' = Append(hist, Calc("NodeIndex_from_NodePos", p,
                                        [t |-> "NodeIndex", v |-> r.val, fits |-> r.fits]))
    /\ UNCHANGED <<db, cache, ret, ops, written, durable, fut, lock>>

(***************************************************************************)
(* The edit cache: inputs.                                                 *)
(***************************************************************************)
\* how many operations the sessions perform in one run
MaxOps == 3

Sessions == {"vm1", "vm2"}
\* the tasks that share one MapEdit
Tasks == {"t1", "t2"}
\* the world positions the sessions address: two nodes of one block that the
\* backend stores, one node of a block it does not store
WorldPositions == {<<0, 0, 0>>, <<1, 0, 0>>, <<-1, 0, 0>>}
\* the blocks of these positions
BlockPositions == {<<0, 0, 0>>, <<-16, 0, 0>>}
Contents == {"default:stone", "default:diamond"}
Params == {7}
Nodes == {[param0 |-> "default:diamond", param1 |-> 3, param2 |-> 5]}

\* From<NodePos> for usize
NodePos_as_usize(node_pos) == NodeIndex_from_NodePos(node_pos).val
\* the node indices of these positions; the flat arrays of a block are kept
\* for these indices only, in this order
ModelNodes == {0, 1, 15}
NodeOrder == <<0, 1, 15>>

(***************************************************************************)
(* MapBlock and its codec (crate::map_block), after sections 3 and 4.2 of  *)
(* the specification: an ordered content dictionary (the id of a name is   *)
(* its place in it, counted from 0), three flat per-node arrays and the    *)
(* trailing payload.                                                       *)
(***************************************************************************)
MapBlock_unloaded ==
    [name_id_mappings |-> <<>>,
     param0 |-> [i \in ModelNodes |-> 0],
     param1 |-> [i \in ModelNodes |-> 0],
     param2 |-> [i \in ModelNodes |-> 0],
     trailer |-> <<>>]

MapBlock_content_id(block, content) ==
    {i \in 1..Len(block.name_id_mappings) : block.name_id_mappings[i] = content}

\* get_or_create_content_id: the id of `content`, inserted with the next
\* unused id when absent
MapBlock_get_or_create_content_id(block, content) ==
    IF MapBlock_content_id(block, content) # {}
    THEN [block |-> block, id |-> (CHOOSE i \in MapBlock_content_id(block, content) : TRUE) - 1]
    ELSE [block |-> [block EXCEPT !.name_id_mappings = Append(@, content)],
          id |-> Len(block.name_id_mappings)]

\* the name of an id; the empty name when the dictionary has no such id
MapBlock_content_from_id(block, id) ==
    IF id + 1 \in 1..Len(block.name_id_mappings) THEN block.name_id_mappings[id + 1] ELSE ""

MapBlock_get_node_at(block, node_pos) ==
    LET i == NodePos_as_usize(node_pos)
    IN  [param0 |-> MapBlock_content_from_id(block, block.param0[i]),
         param1 |-> block.param1[i],
         param2 |-> block.param2[i]]

MapBlock_set_content(block, node_pos, content_id) ==
    [block EXCEPT !.param0[NodePos_as_usize(node_pos)] = content_id]
MapBlock_set_param1(block, node_pos, param1) ==
    [block EXCEPT !.param1[NodePos_as_usize(node_pos)] = param1]
MapBlock_set_param2(block, node_pos, param2) ==
    [block EXCEPT !.param2[NodePos_as_usize(node_pos)] = param2]

MAP_FORMAT_VERSION == 29

\* encode: the version tag, the dictionary as (id, name) pairs, the three
\* planes one after the other in node-index order, the trailing payload
MapBlock_to_data(block) ==
    [version  |-> MAP_FORMAT_VERSION,
     mappings |-> [k \in 1..Len(block.name_id_mappings) |-> <<k - 1, block.name_id_mappings[k]>>],
     nodes    |-> [k \in 1..Len(NodeOrder) |-> block.param0[NodeOrder[k]]]
                  \o [k \in 1..Len(NodeOrder) |-> block.param1[NodeOrder[k]]]
                  \o [k \in 1..Len(NodeOrder) |-> block.param2[NodeOrder[k]]],
     trailer  |-> block.trailer]

\* decode; fails on an unsupported version, a truncated node section, a
\* malformed dictionary, or a node whose content id the dictionary lacks
MapBlock_from_data(data) ==
    IF data.version # MAP_FORMAT_VERSION THEN Err
    ELSE IF Len(data.nodes) # 3 * Len(NodeOrder) THEN Err
    ELSE IF \E k \in 1..Len(data.mappings) : data.mappings[k][1] # k - 1 THEN Err
    ELSE IF \E k \in 1..Len(NodeOrder) : data.nodes[k] >= Len(data.mappings) THEN Err
    ELSE Ok([name_id_mappings |-> [k \in 1..Len(data.mappings) |-> data.mappings[k][2]],
             param0 |-> [i \in ModelNodes |->
                            data.nodes[CHOOSE j \in 1..Len(NodeOrder) : NodeOrder[j] = i]],
             param1 |-> [i \in ModelNodes |->
                            data.nodes[Len(NodeOrder) + (CHOOSE j \in 1..Len(NodeOrder) : NodeOrder[j] = i)]],
             param2 |-> [i \in ModelNodes |->
                            data.nodes[2 * Len(NodeOrder) + (CHOOSE j \in 1..Len(NodeOrder) : NodeOrder[j] = i)]],
             trailer |-> data.trailer])

(***************************************************************************)
(* MapData, the backend accessor.  The backend is a function from block    *)
(* position to a stored row.  Reading is src/src/map_data.rs:              *)
(* get_block_data runs "SELECT data FROM blocks WHERE pos = ?" through     *)
(* query_row, which fails with QueryReturnedNoRows when the table has no   *)
(* such row; get_mapblock passes either error on with `?`, through the     *)
(* #[from] conversions of MapDataError, which has no variant for a missing *)
(* block.  Writing (set_mapblock) is after section 4.3 of the              *)
(* specification.                                                          *)
(***************************************************************************)
NoRow == [present |-> FALSE]
Row(data) == [present |-> TRUE, data |-> data]

\* the variants of MapDataError
MapDataError_SqliteError(e) == [t |-> "SqliteError", e |-> e]
MapDataError_MapBlockError == [t |-> "MapBlockError"]

\* get_block_data; io_error stands for any other failure of the query
MapData_get_block_data(map, pos, io_error) ==
    IF io_error THEN [ok |-> FALSE, err |-> "SqliteFailure"]
    ELSE IF ~map[pos].present THEN [ok |-> FALSE, err |-> "QueryReturnedNoRows"]
    ELSE [ok |-> TRUE, val |-> map[pos].data]

\* MapData::get_mapblock
MapData_get_mapblock(map, pos, io_error) ==
    Strict(MapData_get_block_data(map, pos, io_error), LAMBDA d :
        IF ~d.ok THEN MapDataError_SqliteError(d.err)
        ELSE Strict(MapBlock_from_data(d.val), LAMBDA r :
                 IF r.ok THEN [t |-> "Ok", block |-> r.val] ELSE MapDataError_MapBlockError))

\* set_mapblock: an upsert by block key; io_error stands for a backend failure
MapData_set_mapblock(map, pos, block, io_error) ==
    IF io_error THEN [ok |-> FALSE, db |-> map]
    ELSE [ok |-> TRUE, db |-> [map EXCEPT ![pos] = Row(MapBlock_to_data(block))]]

(***************************************************************************)
(* src/src/voxel_manip.rs.  A MapEdit is its mapblock_cache: a function    *)
(* from block position to NoEntry or a BlockEdit; its `map` handle is the  *)
(* shared backend map.  A method returns the cache and backend it leaves    *)
(* and its result.                                                         *)
(***************************************************************************)
\* node_pos.split() of the world positions the sessions use
NodePos_split == [node_pos \in WorldPositions |-> split(node_pos)]

NoEntry == [present |-> FALSE]
BlockEdit(mapblock, tainted) == [present |-> TRUE, mapblock |-> mapblock, tainted |-> tainted]

BlockEdit_get_node(self, node_pos) == MapBlock_get_node_at(self.mapblock, node_pos)

BlockEdit_set_node(self, node_pos, node) ==
    Strict(MapBlock_get_or_create_content_id(self.mapblock, node.param0), LAMBDA c :
    Strict(MapBlock_set_content(c.block, node_pos, c.id), LAMBDA b1 :
    Strict(MapBlock_set_param1(b1, node_pos, node.param1), LAMBDA b2 :
    Strict(MapBlock_set_param2(b2, node_pos, node.param2), LAMBDA b3 :
        BlockEdit(b3, TRUE)))))

BlockEdit_set_content(self, node_pos, content) ==
    Strict(MapBlock_get_or_create_content_id(self.mapblock, content), LAMBDA c :
        BlockEdit(MapBlock_set_content(c.block, node_pos, c.id), TRUE))

BlockEdit_set_param1(self, node_pos, param1) ==
    BlockEdit(MapBlock_set_param1(self.mapblock, node_pos, param1), TRUE)

\* set_param2 that leaves the dirty flag as it was
BlockEdit_set_param2_unmarked(self, node_pos, param2) ==
    BlockEdit(MapBlock_set_param2(self.mapblock, node_pos, param2), self.tainted)

BlockEdit_set_param2(self, node_pos, param2) ==
    BlockEdit(MapBlock_set_param2(self.mapblock, node_pos, param2), TRUE)

MapEdit_new == [b \in BlockPositions |-> NoEntry]

\* get_mapblock that loads from the backend even when the block is cached
MapEdit_get_mapblock_reloading(self, map, mapblock_pos, io_error) ==
    Strict(MapData_get_mapblock(map, mapblock_pos, io_error), LAMBDA r :
        IF r.t = "Ok"
        THEN [ok |-> TRUE, loaded |-> TRUE,
              cache |-> [self EXCEPT ![mapblock_pos] = BlockEdit(r.block, FALSE)]]
        ELSE IF r.t = "MapBlockNonexistent"
        THEN [ok |-> TRUE, loaded |-> TRUE,
              cache |-> [self EXCEPT ![mapblock_pos] = BlockEdit(MapBlock_unloaded, FALSE)]]
        ELSE [ok |-> FALSE, cache |-> self, loaded |-> FALSE])

\* get_mapblock: the cached entry, or the block loaded from the backend
\* inserted clean; on MapBlockNonexistent the unloaded block is inserted, an
\* error MapData::get_mapblock never returns; any other backend error is
\* returned and nothing is inserted
MapEdit_get_mapblock(self, map, mapblock_pos, io_error) ==
    IF self[mapblock_pos].present
    THEN [ok |-> TRUE, cache |-> self, loaded |-> FALSE]
    ELSE Strict(MapData_get_mapblock(map, mapblock_pos, io_error), LAMBDA r :
             IF r.t = "Ok"
             THEN [ok |-> TRUE, loaded |-> TRUE,
                   cache |-> [self EXCEPT ![mapblock_pos] = BlockEdit(r.block, FALSE)]]
             ELSE IF r.t = "MapBlockNonexistent"
             THEN [ok |-> TRUE, loaded |-> TRUE,
                   cache |-> [self EXCEPT ![mapblock_pos] = BlockEdit(MapBlock_unloaded, FALSE)]]
             ELSE [ok |-> FALSE, cache |-> self, loaded |-> FALSE])

MapEdit_get_node(self, map, node_pos, io_error) ==
    Strict(NodePos_split[node_pos], LAMBDA sp :
    Strict(MapEdit_get_mapblock(self, map, sp.block, io_error), LAMBDA g :
        IF ~g.ok THEN [cache |-> g.cache, db |-> map, res |-> [ok |-> FALSE, loaded |-> FALSE]]
        ELSE [cache |-> g.cache, db |-> map,
              res |-> [ok |-> TRUE, loaded |-> g.loaded,
                       node |-> BlockEdit_get_node(g.cache[sp.block], sp.node)]]))

MapEdit_set_node(self, map, node_pos, node, io_error) ==
    Strict(NodePos_split[node_pos], LAMBDA sp :
    Strict(MapEdit_get_mapblock(self, map, sp.block, io_error), LAMBDA g :
        IF ~g.ok THEN [cache |-> g.cache, db |-> map, res |-> [ok |-> FALSE, loaded |-> FALSE]]
        ELSE [cache |-> [g.cache EXCEPT ![sp.block] = BlockEdit_set_node(@, sp.node, node)],
              db |-> map, res |-> [ok |-> TRUE, loaded |-> g.loaded]]))

\* set_content that also writes the edited block to the backend
MapEdit_set_content_write_through(self, map, node_pos, content, io_error) ==
    Strict(NodePos_split[node_pos], LAMBDA sp :
    Strict(MapEdit_get_mapblock(self, map, sp.block, io_error), LAMBDA g :
        IF ~g.ok THEN [cache |-> g.cache, db |-> map, res |-> [ok |-> FALSE, loaded |-> FALSE]]
        ELSE Strict(BlockEdit_set_content(g.cache[sp.block], sp.node, content), LAMBDA e :
                 [cache |-> [g.cache EXCEPT ![sp.block] = e],
                  db |-> MapData_set_mapblock(map, sp.block, e.mapblock, FALSE).db,
                  res |-> [ok |-> TRUE, loaded |-> g.loaded]])))

MapEdit_set_content(self, map, node_pos, content, io_error) ==
    Strict(NodePos_split[node_pos], LAMBDA sp :
    Strict(MapEdit_get_mapblock(self, map, sp.block, io_error), LAMBDA g :
        IF ~g.ok THEN [cache |-> g.cache, db |-> map, res |-> [ok |-> FALSE, loaded |-> FALSE]]
        ELSE [cache |-> [g.cache EXCEPT ![sp.block] = BlockEdit_set_content(@, sp.node, content)],
              db |-> map, res |-> [ok |-> TRUE, loaded |-> g.loaded]]))

MapEdit_set_param1(self, map, node_pos, param1, io_error) ==
    Strict(NodePos_split[node_pos], LAMBDA sp :
    Strict(MapEdit_get_mapblock(self, map, sp.block, io_error), LAMBDA g :
        IF ~g.ok THEN [cache |-> g.cache, db |-> map, res |-> [ok |-> FALSE, loaded |-> FALSE]]
        ELSE [cache |-> [g.cache EXCEPT ![sp.block] = BlockEdit_set_param1(@, sp.node, param1)],
              db |-> map, res |-> [ok |-> TRUE, loaded |-> g.loaded]]))

MapEdit_set_param2(self, map, node_pos, param2, io_error) ==
    Strict(NodePos_split[node_pos], LAMBDA sp :
    Strict(MapEdit_get_mapblock(self, map, sp.block, io_error), LAMBDA g :
        IF ~g.ok THEN [cache |-> g.cache, db |-> map, res |-> [ok |-> FALSE, loaded |-> FALSE]]
        ELSE [cache |-> [g.cache EXCEPT ![sp.block] = BlockEdit_set_param2(@, sp.node, param2)],
              db |-> map, res |-> [ok |-> TRUE, loaded |-> g.loaded]]))

MapEdit_is_in_cache(self, node_pos) == self[NodePos_split[node_pos].block].present

MapEdit_visit(self, map, node_pos, io_error) ==
    Strict(NodePos_split[node_pos], LAMBDA sp :
    Strict(MapEdit_get_mapblock(self, map, sp.block, io_error), LAMBDA g :
        [cache |-> g.cache, db |-> map, res |-> [ok |-> g.ok, loaded |-> g.loaded]]))

\* no call in flight
Idle == [pc |-> "idle"]

RECURSIVE MapEdit_commit_next(_, _, _)
\* the loop of commit from the i-th entry of the iteration order on: the
\* place of the first tainted entry, Len(order) + 1 when there is none
MapEdit_commit_next(self, order, i) ==
    IF i > Len(order) \/ self[order[i]].tainted THEN i
    ELSE MapEdit_commit_next(self, order, i + 1)

\* the loop of commit run from entry f.i up to its next await or its return
MapEdit_commit_scan(self, map, f) ==
    Strict(MapEdit_commit_next(self, f.order, f.i), LAMBDA j :
        IF j > Len(f.order)
        THEN [cache |-> self, db |-> map, done |-> TRUE, fut |-> Idle,
              res |-> [ok |-> TRUE, puts |-> f.puts]]
        ELSE [cache |-> self, db |-> map, done |-> FALSE, fut |-> [f EXCEPT !.pc = "put", !.i = j],
              res |-> [ok |-> TRUE, puts |-> f.puts]])

\* one poll of the future of commit, which is at f: called and not yet
\* polled (f.pc = "call"), or awaiting the backend write of entry f.i
\* (f.pc = "put"), which is now answered, with an error when io_error
MapEdit_commit_poll(self, map, f, io_error) ==
    IF f.pc = "put"
    THEN Strict(MapData_set_mapblock(map, f.order[f.i], self[f.order[f.i]].mapblock, io_error),
           LAMBDA w :
             IF ~w.ok
             THEN [cache |-> self, db |-> w.db, done |-> TRUE, fut |-> Idle,
                   res |-> [ok |-> FALSE, puts |-> f.puts]]
             ELSE MapEdit_commit_scan(
                      [self EXCEPT ![f.order[f.i]].tainted = FALSE], w.db,
                      [f EXCEPT !.i = f.i + 1,
                                !.puts = Append(f.puts, [pos |-> f.order[f.i],
                                                         data |-> w.db[f.order[f.i]].data])]))
    ELSE MapEdit_commit_scan(self, map, f)

\* commit that clears every dirty flag and writes nothing
MapEdit_commit_no_put(self, map, f, io_error) ==
    [cache |-> [b \in DOMAIN self |->
                   IF self[b].present THEN [self[b] EXCEPT !.tainted = FALSE] ELSE self[b]],
     db |-> map, done |-> TRUE, fut |-> Idle, res |-> [ok |-> TRUE, puts |-> <<>>]]

\* commit that writes every cached block, dirty or not
MapEdit_commit_every_block(self, map, f, io_error) ==
    MapEdit_commit_poll([b \in DOMAIN self |->
                            IF self[b].present /\ b \notin {f.puts[k].pos : k \in 1..Len(f.puts)}
                            THEN [self[b] EXCEPT !.tainted = TRUE] ELSE self[b]],
                        map, f, io_error)

\* commit that, when a write fails, marks every cached block clean
MapEdit_commit_forgetting(self, map, f, io_error) ==
    Strict(MapEdit_commit_poll(self, map, f, io_error), LAMBDA r :
        IF ~r.done \/ r.res.ok THEN r
        ELSE [r EXCEPT !.cache = [b \in DOMAIN self |->
                  IF self[b].present THEN [self[b] EXCEPT !.tainted = FALSE] ELSE self[b]]])

\* commit that drops the entries it has written from the cache when it returns
MapEdit_commit_evicting(self, map, f, io_error) ==
    Strict(MapEdit_commit_poll(self, map, f, io_error), LAMBDA r :
        IF ~r.done THEN r
        ELSE [r EXCEPT !.cache = [b \in DOMAIN self |->
                  IF b \in {r.res.puts[k].pos : k \in 1..Len(r.res.puts)} THEN NoEntry
                  ELSE r.cache[b]]])

\* commit, poll by poll; f.order is the iteration order of the hash map
MapEdit_commit(self, map, f, io_error) == MapEdit_commit_poll(self, map, f, io_error)

\* the call `op` of a MapEdit from the lookup in the cache to the return; a
\* block that is not cached is read from the backend `map` as it is when the
\* backend answers
MapEdit_call(self, map, op, node_pos, arg, io_error) ==
    IF op = "get_node" THEN MapEdit_get_node(self, map, node_pos, io_error)
    ELSE IF op = "set_node" THEN MapEdit_set_node(self, map, node_pos, arg, io_error)
    ELSE IF op = "set_content" THEN MapEdit_set_content(self, map, node_pos, arg, io_error)
    ELSE IF op = "set_param1" THEN MapEdit_set_param1(self, map, node_pos, arg, io_error)
    ELSE IF op = "set_param2" THEN MapEdit_set_param2(self, map, node_pos, arg, io_error)
    ELSE MapEdit_visit(self, map, node_pos, io_error)

(***************************************************************************)
(* The sessions and the backend.  Each session is a MapEdit of its own,    *)
(* driven by one task; the sessions share the backend.  A step is one poll *)
(* of the future of a call: from the call, or from the answer of the       *)
(* backend it awaited, to the next backend await or to the return.  A call *)
(* on a cached block returns in the poll that starts it; a call on a       *)
(* block that is not cached returns to the executor at the backend load;   *)
(* commit returns to the executor at each backend write, holding the guard *)
(* of the entry it writes.  Steps of the other session fall in between.    *)
(* The mutex of an entry is never contended here: the session has one      *)
(* call in flight at most.                                                 *)
(***************************************************************************)
vars == <<hist, db, cache, ret, ops, written, durable, fut, lock>>

\* the block the backend stores at the start
StoredBlock ==
    [name_id_mappings |-> <<"air", "default:stone">>,
     param0 |-> [i \in ModelNodes |-> IF i = 0 THEN 1 ELSE 0],
     param1 |-> [i \in ModelNodes |-> 15],
     param2 |-> [i \in ModelNodes |-> 0],
     trailer |-> <<10, 0>>]
\* the backends a session is opened on: every block stored, or the block at
\* the origin only
StoredAt == {BlockPositions, {<<0, 0, 0>>}}
InitDb == {[b \in BlockPositions |-> IF b \in stored THEN Row(MapBlock_to_data(StoredBlock)) ELSE NoRow] :
              stored \in StoredAt}

None == <<>>
Some(v) == <<v>>
NothingWritten == [content |-> None, param1 |-> None, param2 |-> None]

CacheInit ==
    /\ db \in InitDb
    /\ cache = [s \in Sessions |-> MapEdit_new]
    /\ ret = [op |-> "new"]
    /\ ops = 0
    /\ written = [s \in Sessions |-> [p \in WorldPositions |-> NothingWritten]]
    /\ durable = [due |-> [p \in WorldPositions |-> None], over |-> [s \in Sessions |-> {}]]
    /\ fut = [t \in Tasks |-> Idle]
    /\ lock = [b \in BlockPositions |-> {}]

\* each session is driven by a task of its own, which polls the future of
\* the call the session has in flight
TaskOf(s) == IF s = "vm1" THEN "t1" ELSE "t2"
InFlight == Cardinality({t \in Tasks : fut[t] # Idle})
\* session s can start a call: the future of its last call has returned
CanCall(s) == fut[TaskOf(s)] = Idle /\ ops + InFlight < MaxOps

\* the fields session s has set, after its call `op` returned
WrittenAfter(s, op, p, arg, ok) ==
    IF ~ok THEN written
    ELSE IF op = "set_node"
    THEN [written EXCEPT ![s][p] = [content |-> Some(arg.param0), param1 |-> Some(arg.param1),
                                    param2 |-> Some(arg.param2)]]
    ELSE IF op = "set_content" THEN [written EXCEPT ![s][p].content = Some(arg)]
    ELSE IF op = "set_param1" THEN [written EXCEPT ![s][p].param1 = Some(arg)]
    ELSE IF op = "set_param2" THEN [written EXCEPT ![s][p].param2 = Some(arg)]
    ELSE written

\* the call of session s runs from the lookup in the cache (the block is
\* cached) or from the answer of the backend (it is not) to its return: the
\* mutex of the entry is free, nothing in between returns to the executor
Returns(s, op, p, arg, io) ==
    \E r \in {MapEdit_call(cache[s], db, op, p, arg, io)} :
        /\ cache' = [cache EXCEPT ![s] = r.cache]
        /\ db' = r.db
        /\ ret' = [op |-> op, s |-> s, pos |-> p, io |-> io, res |-> r.res]
        /\ written' = WrittenAfter(s, op, p, arg, r.res.ok)
        /\ ops' = ops + 1

\* the block is not cached: the call has asked the backend for it and
\* returns to the executor until the backend answers
AwaitsLoad(s, op, p, arg) ==
    /\ fut' = [fut EXCEPT ![TaskOf(s)] = [pc |-> "load", op |-> op, pos |-> p, arg |-> arg]]
    /\ UNCHANGED <<db, cache, ret, written, ops>>

GetNode(s, p) ==
    /\ CanCall(s)
    /\ IF MapEdit_is_in_cache(cache[s], p)
       THEN Returns(s, "get_node", p, <<>>, FALSE) /\ fut' = fut
       ELSE AwaitsLoad(s, "get_node", p, <<>>)
    /\ UNCHANGED <<lock, hist, durable>>

SetNode(s, p) ==
    /\ CanCall(s)
    /\ \E node \in Nodes :
          IF MapEdit_is_in_cache(cache[s], p)
          THEN Returns(s, "set_node", p, node, FALSE) /\ fut' = fut
          ELSE AwaitsLoad(s, "set_node", p, node)
    /\ UNCHANGED <<lock, hist, durable>>

SetContent(s, p) ==
    /\ CanCall(s)
    /\ \E content \in Contents :
          IF MapEdit_is_in_cache(cache[s], p)
          THEN Returns(s, "set_content", p, content, FALSE) /\ fut' = fut
          ELSE AwaitsLoad(s, "set_content", p, content)
    /\ UNCHANGED <<lock, hist, durable>>

SetParam1(s, p) ==
    /\ CanCall(s)
    /\ \E param1 \in Params :
          IF MapEdit_is_in_cache(cache[s], p)
          THEN Returns(s, "set_param1", p, param1, FALSE) /\ fut' = fut
          ELSE AwaitsLoad(s, "set_param1", p, param1)
    /\ UNCHANGED <<lock, hist, durable>>

SetParam2(s, p) ==
    /\ CanCall(s)
    /\ \E param2 \in Params :
          IF MapEdit_is_in_cache(cache[s], p)
          THEN Returns(s, "set_param2", p, param2, FALSE) /\ fut' = fut
          ELSE AwaitsLoad(s, "set_param2", p, param2)
    /\ UNCHANGED <<lock, hist, durable>>

\* not an async fn: it runs to its end when called
IsInCache(s, p) ==
    /\ CanCall(s)
    /\ ret' = [op |-> "is_in_cache", s |-> s, pos |-> p, res |-> MapEdit_is_in_cache(cache[s], p)]
    /\ ops' = ops + 1
    /\ UNCHANGED <<fut, lock, hist, db, cache, written, durable>>

Visit(s, p) ==
    /\ CanCall(s)
    /\ IF MapEdit_is_in_cache(cache[s], p)
       THEN Returns(s, "visit", p, <<>>, FALSE) /\ fut' = fut
       ELSE AwaitsLoad(s, "visit", p, <<>>)
    /\ UNCHANGED <<lock, hist, durable>>

\* the backend answers the load the call of session s awaits, with the row
\* it holds now or with an error, and the call runs to its return
LoadAnswered(s) ==
    /\ fut[TaskOf(s)].pc = "load"
    /\ \E io \in BOOLEAN :
          Returns(s, fut[TaskOf(s)].op, fut[TaskOf(s)].pos, fut[TaskOf(s)].arg, io)
    /\ fut' = [fut EXCEPT ![TaskOf(s)] = Idle]
    /\ UNCHANGED <<lock, hist, durable>>

\* the iteration orders of a hash map with the given keys
Orders(keys) ==
    {q \in [1..Cardinality(keys) -> keys] : \A i, j \in 1..Cardinality(keys) : i # j => q[i] # q[j]}
Cached(s) == {b \in BlockPositions : cache[s][b].present}
Tainted(s) == {b \in Cached(s) : cache[s][b].tainted}
PutAt(puts) == {puts[i].pos : i \in 1..Len(puts)}

\* the block position whose cube of BLOCK_NODES_1D nodes a side holds the
\* world position, and the place of the position in the flat arrays of that
\* block (x lowest), both by plain arithmetic
BlockContaining(p) ==
    CHOOSE b \in BlockPositions : \A a \in 1..3 : b[a] <= p[a] /\ p[a] < b[a] + BLOCK_NODES_1D
IndexWithin(p, b) ==
    (p[1] - b[1]) + BLOCK_NODES_1D * (p[2] - b[2]) + BLOCK_NODES_1D * BLOCK_NODES_1D * (p[3] - b[3])
\* the node a block holds at index i
NodeOf(block, i) ==
    [param0 |-> MapBlock_content_from_id(block, block.param0[i]),
     param1 |-> block.param1[i],
     param2 |-> block.param2[i]]

\* the entries of session s that were dirty when the commit now in flight,
\* or called in this step, was called
DirtyAtCall(s) == IF fut[TaskOf(s)] = Idle THEN Tainted(s) ELSE fut[TaskOf(s)].dirty

\* the blocks a poll with outcome r of the future f of a commit has written
Landed(f, r) == PutAt(IF r.done THEN r.res.puts ELSE r.fut.puts) \ PutAt(f.puts)

\* history kept by a poll of the commit of session s, which wrote the blocks
\* `landed` in this poll and, when `done`, returned `ok`: what a block held
\* before a write landed on it is no longer due to be read back; once the
\* commit has returned Ok, the content session s set in a block that was
\* dirty when it was called is, unless another session has written the
\* block since and this commit has not written it after that
DurableAfter(s, landed, done, ok) ==
    [due |-> [p \in WorldPositions |->
                 IF /\ done /\ ok /\ written[s][p].content # None
                    /\ BlockContaining(p) \in DirtyAtCall(s)
                    /\ BlockContaining(p) \notin durable.over[s] \ landed
                 THEN written[s][p].content
                 ELSE IF BlockContaining(p) \in landed THEN None
                 ELSE durable.due[p]],
     over |-> [t \in Sessions |->
                 IF t = s THEN (IF done THEN {} ELSE durable.over[s] \ landed)
                 ELSE IF fut[TaskOf(t)].pc = "put" THEN durable.over[t] \cup landed
                 ELSE durable.over[t]]]

\* the future of the commit of session s, which was at f, has been polled,
\* with outcome r
CommitPolled(s, f, r) ==
    /\ cache' = [cache EXCEPT ![s] = r.cache]
    /\ db' = r.db
    /\ fut' = [fut EXCEPT ![TaskOf(s)] = r.fut]
    /\ ret' = IF r.done THEN [op |-> "commit", s |-> s, res |-> r.res] ELSE ret
    /\ ops' = IF r.done THEN ops + 1 ELSE ops
    /\ durable' = DurableAfter(s, Landed(f, r), r.done, r.res.ok)

\* commit is called: it passes the clean entries and returns to the executor
\* at the backend write of the first dirty entry, whose mutex it holds; it
\* returns at once when no entry is dirty
Commit(s) ==
    /\ CanCall(s)
    /\ \E order \in Orders(Cached(s)) :
          \E f \in {[pc |-> "call", op |-> "commit", order |-> order, i |-> 1,
                     puts |-> <<>>, dirty |-> Tainted(s)]} :
              \E r \in {MapEdit_commit(cache[s], db, f, FALSE)} : CommitPolled(s, f, r)
    /\ UNCHANGED <<lock, hist, written>>

\* the backend answers the write the commit of session s awaits: on an error
\* commit returns it; otherwise the entry is marked clean and the loop goes
\* on to the write of the next dirty entry, or to the return
WriteAnswered(s) ==
    /\ fut[TaskOf(s)].pc = "put"
    /\ \E io \in BOOLEAN :
          \E r \in {MapEdit_commit(cache[s], db, fut[TaskOf(s)], io)} :
              CommitPolled(s, fut[TaskOf(s)], r)
    /\ UNCHANGED <<lock, hist, written>>

\* the MapEdit is dropped, with the future of a call in flight if there is
\* one, and a new one opened over the same backend; a write the dropped
\* future awaited may have reached the backend or not
Reopen(s) ==
    /\ ops + InFlight < MaxOps \/ fut[TaskOf(s)] # Idle
    /\ cache' = [cache EXCEPT ![s] = MapEdit_new]
    /\ fut' = [fut EXCEPT ![TaskOf(s)] = Idle]
    /\ ret' = [op |-> "new", s |-> s]
    /\ written' = [written EXCEPT ![s] = [p \in WorldPositions |-> NothingWritten]]
    /\ ops' = ops + 1
    /\ IF fut[TaskOf(s)].pc = "put"
       THEN \E landed \in BOOLEAN :
               \E r \in {MapEdit_commit(cache[s], db, fut[TaskOf(s)], ~landed)} :
                   /\ db' = r.db
                   /\ durable' = DurableAfter(s, Landed(fut[TaskOf(s)], r), TRUE, FALSE)
       ELSE UNCHANGED <<db, durable>>
    /\ UNCHANGED <<lock, hist>>

\* a MapEdit opened on a backend that may lack a block
SoloInit == hist = <<>> /\ CacheInit
\* two sessions opened on a backend that stores every block they address
Init == SoloInit /\ \A b \in BlockPositions : db[b].present
Next ==
    \E s \in Sessions :
        \/ Reopen(s)
        \/ Commit(s)
        \/ LoadAnswered(s)
        \/ WriteAnswered(s)
        \/ \E p \in WorldPositions :
              \/ GetNode(s, p)
              \/ SetNode(s, p)
              \/ SetContent(s, p)
              \/ SetParam1(s, p)
              \/ SetParam2(s, p)
              \/ IsInCache(s, p)
              \/ Visit(s, p)
Spec == Init /\ [][Next]_vars

PosInit == Init
PosNext ==
    \/ DoSplit
    \/ DoJoin
    \/ DoBlockKeyTryFrom
    \/ DoBlockPosFromBlockKey
    \/ DoBlockKeyFromBlockPos
    \/ DoBlockPosFromIndexVec
    \/ DoBlockPosTryFrom
    \/ DoBlockPosFromRow
    \/ DoNodeIndexTryFrom
    \/ DoNodePosTryFrom
    \/ DoNodePosFromNodeIndex
    \/ DoNodeIndexFromNodePos
PosSpec == PosInit /\ [][PosNext]_vars

(***************************************************************************)
(* Properties of the edit cache, over Spec.                                *)
(***************************************************************************)
\* the node the backend `map` holds at a world position: that of the stored
\* block, or of an unloaded block where no row is stored
StoredNode(map, p) ==
    Strict(NodePos_split[p], LAMBDA sp :
        IF map[sp.block].present
        THEN MapBlock_get_node_at(MapBlock_from_data(map[sp.block].data).val, sp.node)
        ELSE MapBlock_get_node_at(MapBlock_unloaded, sp.node))

\* C1: a get_node of a session returns, in each field one of the session's
\* setters has set at that position, the value set last, whether or not a
\* commit came in between; such a read does not fail.
C1_ReadYourWrites ==
    ret.op = "get_node" =>
        LET w == written[ret.s][ret.pos]
        IN  /\ (w.content # None \/ w.param1 # None \/ w.param2 # None) => ret.res.ok
            /\ w.content # None => ret.res.node.param0 = w.content[1]
            /\ w.param1 # None => ret.res.node.param1 = w.param1[1]
            /\ w.param2 # None => ret.res.node.param2 = w.param2[1]

C1_Witness ==
    /\ ret.op = "get_node"
    /\ ret.res.ok
    /\ ~ret.res.loaded
    /\ written[ret.s][ret.pos].content = Some("default:diamond")
    /\ ret.res.node.param0 = "default:diamond"
    /\ StoredNode(db, ret.pos).param0 # "default:diamond"

\* C2: once a commit that returned Ok has written the block of a position
\* whose content the session had set, and no commit has written that block
\* since, a get_node that loads the block from the backend returns that
\* content, and fails only on a backend failure.
C2_PersistsThroughCommit ==
    ret.op = "get_node" /\ durable.due[ret.pos] # None =>
        /\ ret.res.ok \/ ret.io
        /\ ret.res.ok /\ ret.res.loaded => ret.res.node.param0 = durable.due[ret.pos][1]

C2_Witness ==
    /\ ret.op = "get_node"
    /\ ret.pos = <<-1, 0, 0>>
    /\ ret.res.ok
    /\ ret.res.loaded
    /\ durable.due[ret.pos] = Some("default:diamond")
    /\ ret.res.node.param0 = "default:diamond"

\* a step in which the call `op` of session s returns
Completes(s, op) == ops' = ops + 1 /\ ret'.s = s /\ ret'.op = op
\* a step in which the future of the call of session s is polled or dropped
Polled(s) == fut'[TaskOf(s)] # fut[TaskOf(s)]
\* a step of session s: a call of it starts, goes on or returns
Acts(s) == Polled(s) \/ (ops' = ops + 1 /\ ret'.s = s)
\* the write the commit of session s awaits
AwaitedWrite(s) == fut[TaskOf(s)].order[fut[TaskOf(s)].i]

\* C3: the backend changes only where a commit awaits one of its writes,
\* so by no other operation and not by dropping a session; no step of a
\* session changes another session's cache; and a get_node that loads its
\* block returns the node the backend holds when it answers, whatever other
\* sessions have set and not committed.
C3_NoEditOutsideCommit ==
    [][/\ db' # db => \E s \in Sessions : fut[TaskOf(s)].pc = "put" /\ Polled(s)
       /\ \A s \in Sessions : cache'[s] # cache[s] => Acts(s)
       /\ \A s \in Sessions :
             Completes(s, "get_node") /\ ret'.res.ok /\ ret'.res.loaded
                => ret'.res.node = StoredNode(db, ret'.pos)]_vars

C3_Witness ==
    /\ ret.op = "get_node"
    /\ ret.s = "vm2"
    /\ ret.res.ok
    /\ ret.res.loaded
    /\ written["vm1"][ret.pos].content = Some("default:diamond")
    /\ ret.res.node.param0 # "default:diamond"
    /\ db \in InitDb
    /\ fut[TaskOf("vm1")].pc = "put"

\* C4: a commit writes one block for each cached entry that was dirty, the
\* encoding of the entry's block, and none for a clean entry, stopping at
\* the first write that fails; every change of the backend is such a write,
\* of the block of a dirty entry, one block a step; after a commit that
\* returned Ok no entry is dirty, and a commit that follows at once writes
\* nothing.
C4_CommitWritesDirtyOnly ==
    [][/\ \A s \in Sessions :
             Completes(s, "commit") =>
                LET puts == ret'.res.puts
                    dirty == DirtyAtCall(s)
                IN  /\ \A i, j \in 1..Len(puts) : i # j => puts[i].pos # puts[j].pos
                    /\ \A i \in 1..Len(puts) :
                          /\ puts[i].pos \in dirty
                          /\ puts[i].data = MapBlock_to_data(cache[s][puts[i].pos].mapblock)
                    /\ \A b \in Cached(s) :
                          /\ cache'[s][b].mapblock = cache[s][b].mapblock
                          /\ cache'[s][b].tainted = (b \in dirty \ PutAt(puts))
                    /\ ret'.res.ok => PutAt(puts) = dirty
                    /\ ret.op = "commit" /\ ret.s = s /\ ret.res.ok => puts = <<>>
       /\ db' # db =>
             \E s \in Sessions :
                /\ fut[TaskOf(s)].pc = "put"
                /\ Polled(s)
                /\ cache[s][AwaitedWrite(s)].tainted
                /\ db' = [db EXCEPT ![AwaitedWrite(s)] =
                                   Row(MapBlock_to_data(cache[s][AwaitedWrite(s)].mapblock))]
       /\ \A s \in Sessions :
             (/\ fut[TaskOf(s)].pc = "put" /\ Polled(s) /\ ~Completes(s, "new")
              /\ ~(Completes(s, "commit") /\ ~ret'.res.ok)) =>
                /\ db'[AwaitedWrite(s)] = Row(MapBlock_to_data(cache[s][AwaitedWrite(s)].mapblock))
                /\ cache'[s][AwaitedWrite(s)] = BlockEdit(cache[s][AwaitedWrite(s)].mapblock, FALSE)
                /\ Append(fut[TaskOf(s)].puts,
                          [pos |-> AwaitedWrite(s), data |-> db'[AwaitedWrite(s)].data])
                      = IF Completes(s, "commit") THEN ret'.res.puts ELSE fut'[TaskOf(s)].puts
      ]_vars

C4_Witness ==
    /\ ret.op = "commit"
    /\ ret.res.ok
    /\ Len(ret.res.puts) = 1
    /\ Cardinality(Cached(ret.s)) = 2
    /\ Tainted(ret.s) = {}
    /\ db \notin InitDb

(***************************************************************************)
(* Properties of the addressing arithmetic, over PosSpec.                  *)
(***************************************************************************)
KeyInRange(k) == I64LessEq(BLOCK_KEY_MIN, k) /\ I64LessEq(k, BLOCK_KEY_MAX)
IndexInRange(x) == -2048 <= x /\ x <= 2047

\* C5: joining the two halves of v.split() gives v back for every i16
\* vector v, and no axis of the sum leaves the i16 range.
C5_SplitJoinRoundTrip ==
    \A i \in 2..Len(hist) :
        hist[i].op = "join" /\ hist[i - 1].op = "split"
            => hist[i].res.fits /\ hist[i].res.v = hist[i - 1].arg

C5_Witness ==
    /\ Len(hist) = 2
    /\ hist[2].op = "join"
    /\ hist[1].op = "split"
    /\ hist[1].arg = <<I16_MIN, I16_MAX, -1>>
    /\ hist[2].res.v = <<I16_MIN, I16_MAX, -1>>

\* C6: BlockKey::try_from accepts every k of the key range, and turning the
\* accepted key into a BlockPos and that back into a BlockKey gives k.
C6_KeyRoundTrip ==
    /\ \A i \in 1..Len(hist) :
          hist[i].op = "BlockKey_try_from" /\ KeyInRange(hist[i].arg)
              => hist[i].res.t = "BlockKey" /\ hist[i].res.v = hist[i].arg
    /\ \A i \in 3..Len(hist) :
          /\ hist[i - 2].op = "BlockKey_try_from"
          /\ hist[i - 2].res.t = "BlockKey"
          /\ hist[i - 1].op = "BlockPos_from_BlockKey"
          /\ hist[i].op = "BlockKey_from_BlockPos"
          => hist[i].res.v = hist[i - 2].arg

C6_Witness ==
    /\ Len(hist) = 3
    /\ hist[1].op = "BlockKey_try_from"
    /\ hist[1].arg = BLOCK_KEY_MIN
    /\ hist[2].op = "BlockPos_from_BlockKey"
    /\ hist[3].op = "BlockKey_from_BlockPos"
    /\ hist[3].res.v = BLOCK_KEY_MIN

\* C7: a BlockPos got from split, from_index_vec, a successful
\* BlockPos::try_from or From<BlockKey> is given back by turning it into a
\* BlockKey and that back into a BlockPos.
C7_CoordRoundTrip ==
    \A i \in 3..Len(hist) :
        /\ hist[i - 2].op \in {"split", "BlockPos_from_index_vec", "BlockPos_try_from",
                               "BlockPos_from_BlockKey"}
        /\ hist[i - 1].op = "BlockKey_from_BlockPos"
        /\ hist[i].op = "BlockPos_from_BlockKey"
        => hist[i].res.v = hist[i - 1].arg

\* C8: the BlockPos decoded from a key k of the key range is
\* from_index_vec(x, y, z) for the triple with each axis in -2048..2047 and
\* k = x + 4096 * y + 4096 * 4096 * z; 134270984 decodes to (8, 13, 8) and
\* -184549374 to (2, 0, -11).
C8_DecodeMatchesLayout ==
    \A i \in 1..Len(hist) :
        hist[i].op = "BlockPos_from_BlockKey" /\ KeyInRange(hist[i].arg) =>
            LET pos == hist[i].res.v
                t == <<pos[1] \div 16, pos[2] \div 16, pos[3] \div 16>>
            IN  /\ IndexInRange(t[1]) /\ IndexInRange(t[2]) /\ IndexInRange(t[3])
                /\ RefKey(t[1], t[2], t[3]) = hist[i].arg
                /\ pos = BlockPos_from_index_vec(t)
                /\ pos = <<16 * t[1], 16 * t[2], 16 * t[3]>>
                /\ hist[i].arg = I64FromInt(134270984) => t = <<8, 13, 8>>
                /\ hist[i].arg = I64FromInt(-184549374) => t = <<2, 0, -11>>

C8_Witness ==
    /\ Len(hist) = 2
    /\ hist[1].op = "BlockKey_try_from"
    /\ hist[1].arg = I64FromInt(-184549374)
    /\ hist[2].op = "BlockPos_from_BlockKey"
    /\ hist[2].res.v = <<32, 0, -176>>

\* C9: BlockKey::try_from accepts exactly the values of the key range, and
\* every BlockKey built on any path (try_from, From<BlockPos>, the pos column
\* of a backend row) holds a value of the key range.
C9_KeyAlwaysInRange ==
    \A i \in 1..Len(hist) :
        /\ hist[i].op = "BlockKey_try_from"
              => (hist[i].res.t = "BlockKey" <=> KeyInRange(hist[i].arg))
        /\ hist[i].res.t = "BlockKey" => KeyInRange(hist[i].res.v)
        /\ hist[i].res.t = "Row" => KeyInRange(hist[i].res.key)

\* C10: NodeIndex::from(p) is x + 16 * y + 256 * z and below 4096,
\* NodePos::from(i) has its axes in 0..15, each conversion undoes the other,
\* index 0 is (0, 0, 0) and index 4095 is (15, 15, 15).
C10_NodeIndexBijection ==
    /\ \A i \in 1..Len(hist) :
          /\ hist[i].op = "NodeIndex_from_NodePos" =>
                /\ hist[i].res.fits
                /\ hist[i].res.v = hist[i].arg[1] + 16 * hist[i].arg[2] + 256 * hist[i].arg[3]
                /\ hist[i].res.v < 4096
                /\ hist[i].arg = <<0, 0, 0>> <=> hist[i].res.v = 0
                /\ hist[i].arg = <<15, 15, 15>> <=> hist[i].res.v = 4095
          /\ hist[i].op = "NodePos_from_NodeIndex" =>
                /\ \A a \in 1..3 : hist[i].res.v[a] \in 0..15
                /\ hist[i].arg = hist[i].res.v[1] + 16 * hist[i].res.v[2] + 256 * hist[i].res.v[3]
                /\ hist[i].arg = 0 <=> hist[i].res.v = <<0, 0, 0>>
                /\ hist[i].arg = 4095 <=> hist[i].res.v = <<15, 15, 15>>
          /\ hist[i].op = "NodeIndex_try_from" => (hist[i].res.t = "NodeIndex" <=> hist[i].arg \in 0..4095)
          /\ hist[i].op = "NodePos_try_from" =>
                (hist[i].res.t = "NodePos" <=> \A a \in 1..3 : hist[i].arg[a] \in 0..15)
    /\ \A i \in 2..Len(hist) :
          /\ hist[i - 1].op = "NodeIndex_from_NodePos" /\ hist[i].op = "NodePos_from_NodeIndex"
                => hist[i].res.v = hist[i - 1].arg
          /\ hist[i - 1].op = "NodePos_from_NodeIndex" /\ hist[i].op = "NodeIndex_from_NodePos"
                => hist[i].res.v = hist[i - 1].arg

C10_Witness ==
    /\ Len(hist) = 3
    /\ hist[1].op = "NodeIndex_try_from"
    /\ hist[1].arg = 4095
    /\ hist[2].op = "NodePos_from_NodeIndex"
    /\ hist[2].res.v = <<15, 15, 15>>
    /\ hist[3].op = "NodeIndex_from_NodePos"
    /\ hist[3].res.v = 4095

(***************************************************************************)
(* The accessor on its own, over backends with missing and corrupt rows.   *)
(***************************************************************************)
\* a row whose data names a format version the decoder does not support
CorruptRow == Row([MapBlock_to_data(StoredBlock) EXCEPT !.version = MAP_FORMAT_VERSION - 1])

\* the backends the accessor is opened on
MapInit ==
    /\ hist = <<>>
    /\ db \in [BlockPositions -> {NoRow, Row(MapBlock_to_data(StoredBlock)),
                                  Row(MapBlock_to_data(MapBlock_unloaded)), CorruptRow}]
    /\ cache = [s \in Sessions |-> MapEdit_new]
    /\ ret = [op |-> "new"]
    /\ ops = 0
    /\ written = [s \in Sessions |-> [p \in WorldPositions |-> NothingWritten]]
    /\ durable = [due |-> [p \in WorldPositions |-> None], over |-> [s \in Sessions |-> {}]]
    /\ fut = [t \in Tasks |-> Idle]
    /\ lock = [b \in BlockPositions |-> {}]

\* a call of get_mapblock on the accessor
GetMapblock(pos) ==
    /\ ops < MaxOps
    /\ \E io \in BOOLEAN :
          ret' = [op |-> "get_mapblock", pos |-> pos, io |-> io,
                  res |-> MapData_get_mapblock(db, pos, io)]
    /\ ops' = ops + 1
    /\ UNCHANGED <<fut, lock, hist, db, cache, written, durable>>

MapNext == \E pos \in BlockPositions : GetMapblock(pos)
MapSpec == MapInit /\ [][MapNext]_vars

\* C11: reading a block position that has no stored block through
\* MapData::get_mapblock fails with MapDataError::MapBlockNonexistent
\* carrying exactly the requested position, an outcome distinct from the
\* one a backend I/O error gives and from the one a format error gives
C11_MissNotFound ==
    ret.op = "get_mapblock" /\ ~ret.io /\ ~db[ret.pos].present =>
        /\ ret.res.t = "MapBlockNonexistent"
        /\ ret.res.pos = ret.pos
        /\ ret.res.t # MapData_get_mapblock(db, ret.pos, TRUE).t
        /\ ret.res.t # MapDataError_MapBlockError.t

(***************************************************************************)
(* Further properties of the edit cache, over Spec.                        *)
(***************************************************************************)
\* C12: when the write of one dirty block fails during commit, commit returns
\* the error; the blocks written earlier in that commit are clean and the
\* failing step takes nothing back from the backend; the failing block and
\* the dirty blocks not reached keep their flag and their edits; a commit of
\* the session that follows and succeeds writes all of them
C12_PartialCommit ==
    [][\A s \in Sessions :
        /\ (Completes(s, "commit") /\ ~ret'.res.ok) =>
            /\ fut[TaskOf(s)].pc = "put"
            /\ db' = db
            /\ cache'[s] = cache[s]
            /\ AwaitedWrite(s) \in Tainted(s)
            /\ Tainted(s) = DirtyAtCall(s) \ PutAt(ret'.res.puts)
            /\ \A k \in 1..Len(ret'.res.puts) :
                  /\ ret'.res.puts[k].pos \in DirtyAtCall(s)
                  /\ ret'.res.puts[k].data = MapBlock_to_data(cache'[s][ret'.res.puts[k].pos].mapblock)
        /\ (/\ ret.op = "commit" /\ ret.s = s /\ ~ret.res.ok
            /\ Completes(s, "commit") /\ ret'.res.ok) =>
            /\ DirtyAtCall(s) # {}
            /\ PutAt(ret'.res.puts) = DirtyAtCall(s)
      ]_vars

\* a commit wrote one block and failed on the next
C12_Witness ==
    /\ ret.op = "commit"
    /\ ~ret.res.ok
    /\ Len(ret.res.puts) = 1
    /\ Tainted(ret.s) # {}
    /\ \A b \in PutAt(ret.res.puts) : db[b].present /\ ~cache[ret.s][b].tainted

\* the session has set nothing since it was opened
ReadOnlySoFar(s) == \A p \in WorldPositions : written[s][p] = NothingWritten

\* C15: get_node, visit and is_in_cache never set a dirty flag and leave the
\* backend alone; is_in_cache leaves the cache alone; get_node of a block the
\* backend lacks answers from the unloaded block, cached clean; the commit of
\* a session that has only read writes nothing.  Checked over SoloSpec, whose
\* backend may lack a block.
C15_ReadsNeverDirty ==
    [][/\ (ops' = ops + 1 /\ ret'.op \in {"get_node", "visit", "is_in_cache"}) =>
            /\ db' = db
            /\ \A b \in BlockPositions :
                  /\ cache[ret'.s][b].present => cache'[ret'.s][b] = cache[ret'.s][b]
                  /\ ~cache[ret'.s][b].present /\ cache'[ret'.s][b].present =>
                        /\ ~cache'[ret'.s][b].tainted
                        /\ b = BlockContaining(ret'.pos)
                        /\ ret'.op # "is_in_cache"
            /\ (/\ ret'.op = "get_node" /\ ~ret'.io
                /\ ~cache[ret'.s][BlockContaining(ret'.pos)].present
                /\ ~db[BlockContaining(ret'.pos)].present) =>
                  /\ ret'.res.ok
                  /\ ret'.res.node = NodeOf(MapBlock_unloaded, IndexWithin(ret'.pos, BlockContaining(ret'.pos)))
                  /\ cache'[ret'.s][BlockContaining(ret'.pos)] = BlockEdit(MapBlock_unloaded, FALSE)
       /\ (ops' = ops + 1 /\ ret'.op = "commit" /\ ReadOnlySoFar(ret'.s)) =>
            /\ ret'.res.ok
            /\ ret'.res.puts = <<>>
            /\ db' = db
      ]_vars

\* block `new` is block `old` but for the node of index i: the other
\* nodes' ids and parameters and the trailing payload are those of `old`, and
\* the dictionary of `old` is kept, extended at most
KeepsOtherNodes(old, new, i) ==
    /\ \A k \in ModelNodes \ {i} :
          /\ new.param0[k] = old.param0[k]
          /\ new.param1[k] = old.param1[k]
          /\ new.param2[k] = old.param2[k]
    /\ new.trailer = old.trailer
    /\ Len(new.name_id_mappings) >= Len(old.name_id_mappings)
    /\ \A k \in 1..Len(old.name_id_mappings) : new.name_id_mappings[k] = old.name_id_mappings[k]

\* C16: the cache holds one copy per block coordinate; an entry, once
\* created, stays for the rest of the session: no step of the session removes
\* it (commit keeps it, is_in_cache answers true), a later operation on the
\* coordinate does not read the backend again, and get, set and commit act on
\* that copy: a get answers from it, a set changes the node set and keeps
\* every other node of it, a commit changes at most its flag
C16_StableEntry ==
    [][/\ \A s \in Sessions, b \in BlockPositions :
            (cache[s][b].present /\ ~Completes(s, "new")) =>
                /\ cache'[s][b].present
                /\ cache'[s][b] # cache[s][b] =>
                      IF fut[TaskOf(s)].pc = "put"
                      THEN /\ Polled(s)
                           /\ cache'[s][b] = BlockEdit(cache[s][b].mapblock, FALSE)
                      ELSE /\ ops' = ops + 1
                           /\ ret'.s = s
                           /\ ret'.op \in {"set_node", "set_content", "set_param1", "set_param2"}
                           /\ BlockContaining(ret'.pos) = b
                           /\ KeepsOtherNodes(cache[s][b].mapblock, cache'[s][b].mapblock,
                                              IndexWithin(ret'.pos, b))
       /\ (/\ ops' = ops + 1
           /\ ret'.op \in {"get_node", "visit", "set_node", "set_content", "set_param1", "set_param2",
                           "is_in_cache"}) =>
             \A b \in {BlockContaining(ret'.pos)} :
                IF ret'.op = "is_in_cache"
                THEN ret'.res = cache[ret'.s][b].present
                ELSE cache[ret'.s][b].present =>
                        /\ ret'.res.ok
                        /\ ~ret'.res.loaded
                        /\ ret'.op = "get_node" =>
                              ret'.res.node = NodeOf(cache[ret'.s][b].mapblock, IndexWithin(ret'.pos, b))
      ]_vars

\* a commit has written a block and the entry is still in the cache
C16_Witness ==
    /\ ret.op = "commit"
    /\ ret.res.ok
    /\ Len(ret.res.puts) >= 1
    /\ \A b \in PutAt(ret.res.puts) :
          cache[ret.s][b].present /\ db[b] = Row(MapBlock_to_data(cache[ret.s][b].mapblock))

(***************************************************************************)
(* Alignment of block positions, over PosSpec.                             *)
(***************************************************************************)
\* the low NODE_BITS_1D bits of every axis are zero
BlockAligned(v) == \A a \in 1..3 : v[a] % Pow2(NODE_BITS_1D) = 0

\* C17: every BlockPos value is block-aligned, whichever way it was
\* produced: the block half of a split, from_index_vec, From<BlockKey>, an Ok
\* of BlockPos::try_from(I16Vec3), the decoding of a backend row
C17_BlockPosAligned ==
    \A i \in 1..Len(hist) : \A p \in BlockPosIn(hist[i].res) : BlockAligned(p)

(***************************************************************************)
(* One session as the only writer of its backend.                          *)
(***************************************************************************)
Writer == "vm1"
SoloNext ==
    \/ Reopen(Writer)
    \/ Commit(Writer)
    \/ LoadAnswered(Writer)
    \/ WriteAnswered(Writer)
    \/ \E p \in WorldPositions :
          \/ GetNode(Writer, p)
          \/ SetNode(Writer, p)
          \/ SetContent(Writer, p)
          \/ SetParam1(Writer, p)
          \/ SetParam2(Writer, p)
          \/ IsInCache(Writer, p)
          \/ Visit(Writer, p)
SoloSpec == SoloInit /\ [][SoloNext]_vars

\* the backend stores `block` at a coordinate: the row holds its encoding;
\* with no row, the block is the unloaded block
BackendHolds(b, block) ==
    IF db[b].present THEN db[b].data = MapBlock_to_data(block) ELSE block = MapBlock_unloaded

\* C19: in a session that is the only writer of its backend, after every
\* completed operation, failed loads and failed commits included, a cached
\* entry whose dirty flag is clear holds the block the backend stores for the
\* coordinate, or the unloaded block when the backend has none; an entry
\* whose block differs from the backend's is dirty
C19_DirtyFlagSound ==
    \A b \in BlockPositions :
        /\ (cache[Writer][b].present /\ ~cache[Writer][b].tainted) =>
              BackendHolds(b, cache[Writer][b].mapblock)
        /\ (cache[Writer][b].present /\ ~BackendHolds(b, cache[Writer][b].mapblock)) =>
              cache[Writer][b].tainted

\* after a commit that failed part-way: one block written and clean, holding
\* what the backend now stores, another still dirty and different from it
C19_Witness ==
    /\ ret.op = "commit"
    /\ ~ret.res.ok
    /\ \E b \in BlockPositions :
          /\ cache[Writer][b].present /\ ~cache[Writer][b].tainted
          /\ db[b] # Row(MapBlock_to_data(StoredBlock))
          /\ BackendHolds(b, cache[Writer][b].mapblock)
    /\ \E b \in BlockPositions :
          /\ cache[Writer][b].present /\ cache[Writer][b].tainted
          /\ ~BackendHolds(b, cache[Writer][b].mapblock)

(***************************************************************************)
(* The calls of one MapEdit step by step, for tasks that share it.  Every  *)
(* method but is_in_cache is an async fn taking `&mut self`: the future a  *)
(* call returns borrows the MapEdit exclusively until it has completed or  *)
(* has been dropped.  A future can be dropped (abandoned) where it returns *)
(* to the executor: at the backend load and at the backend write of        *)
(* commit.  The mutex of an entry is never held when a call asks for it,   *)
(* so lock().await resolves in the poll that reaches it.  The shared       *)
(* MapEdit is cache[Writer].                                               *)
(***************************************************************************)
\* `&mut self`: a live future of a method holds the exclusive borrow
MapEdit_borrowed(f) == \E t \in Tasks : f[t] # Idle

\* the Vacant arm of get_mapblock that substitutes the unloaded block on
\* every backend error
MapEdit_get_mapblock_vacant_substituting(self, mapblock_pos, r) ==
    IF r.t = "Ok"
    THEN [ok |-> TRUE, cache |-> [self EXCEPT ![mapblock_pos] = BlockEdit(r.block, FALSE)]]
    ELSE [ok |-> r.t = "MapBlockNonexistent",
          cache |-> [self EXCEPT ![mapblock_pos] = BlockEdit(MapBlock_unloaded, FALSE)]]

\* the Vacant arm of get_mapblock once the backend has answered r
MapEdit_get_mapblock_vacant(self, mapblock_pos, r) ==
    IF r.t = "Ok"
    THEN [ok |-> TRUE, cache |-> [self EXCEPT ![mapblock_pos] = BlockEdit(r.block, FALSE)]]
    ELSE IF r.t = "MapBlockNonexistent"
    THEN [ok |-> TRUE, cache |-> [self EXCEPT ![mapblock_pos] = BlockEdit(MapBlock_unloaded, FALSE)]]
    ELSE [ok |-> FALSE, cache |-> self]

\* Mutex::lock resolves only while no guard of the mutex is alive
Mutex_free(l, b) == l[b] = {}
\* a lock that hands out no guard
Mutex_lock_unguarded(l, b, t) == l
\* the guard Mutex::lock returns to task t
Mutex_lock(l, b, t) == [l EXCEPT ![b] = @ \cup {t}]
\* the guard going out of scope, or being dropped with its future
Mutex_unlock(l, b, t) == [l EXCEPT ![b] = @ \ {t}]

Setters == {"set_node", "set_content", "set_param1", "set_param2"}
Calls == {"get_node", "visit"} \cup Setters
\* the values a call is made with, besides the position
Args(op) ==
    IF op = "set_node" THEN Nodes
    ELSE IF op = "set_content" THEN Contents
    ELSE IF op \in {"set_param1", "set_param2"} THEN Params
    ELSE {<<>>}
\* the setter `op` of BlockEdit
BlockEdit_set(self, op, node_pos, arg) ==
    IF op = "set_node" THEN BlockEdit_set_node(self, node_pos, arg)
    ELSE IF op = "set_content" THEN BlockEdit_set_content(self, node_pos, arg)
    ELSE IF op = "set_param1" THEN BlockEdit_set_param1(self, node_pos, arg)
    ELSE BlockEdit_set_param2(self, node_pos, arg)
BlockOf(f) == NodePos_split[f.pos].block

\* a task calls get_node, a setter or visit and polls the future up to its
\* first await: the backend load when the entry is vacant, else the lock
Call(t, op, p) ==
    /\ ops < MaxOps
    /\ fut[t] = Idle
    /\ ~MapEdit_borrowed(fut)
    /\ \E arg \in Args(op) :
          IF ~cache[Writer][NodePos_split[p].block].present
          THEN /\ fut' = [fut EXCEPT ![t] = [pc |-> "load", op |-> op, pos |-> p, arg |-> arg,
                                             before |-> NoEntry]]
               /\ ret' = ret
          ELSE IF op = "visit"
          THEN /\ fut' = fut
               /\ ret' = [op |-> op, pos |-> p, res |-> [ok |-> TRUE, loaded |-> FALSE]]
          ELSE /\ fut' = [fut EXCEPT ![t] = [pc |-> "lock", op |-> op, pos |-> p, arg |-> arg,
                                             before |-> cache[Writer][NodePos_split[p].block]]]
               /\ ret' = ret
    /\ ops' = ops + 1
    /\ UNCHANGED <<hist, db, cache, written, durable, lock>>

\* the backend answers the load
LoadDone(t) ==
    /\ fut[t].pc = "load"
    /\ \E io \in BOOLEAN :
          \E g \in {MapEdit_get_mapblock_vacant(cache[Writer], BlockOf(fut[t]),
                                                MapData_get_mapblock(db, BlockOf(fut[t]), io))} :
              /\ cache' = [cache EXCEPT ![Writer] = g.cache]
              /\ IF g.ok /\ fut[t].op # "visit"
                 THEN /\ fut' = [fut EXCEPT ![t].pc = "lock"]
                      /\ ret' = ret
                 ELSE /\ fut' = [fut EXCEPT ![t] = Idle]
                      /\ ret' = [op |-> fut[t].op, pos |-> fut[t].pos, io |-> io,
                                 res |-> [ok |-> g.ok, loaded |-> g.ok]]
    /\ UNCHANGED <<hist, db, ops, written, durable, lock>>

\* block.lock().await resolves
Acquire(t) ==
    /\ fut[t].pc = "lock"
    /\ Mutex_free(lock, BlockOf(fut[t]))
    /\ lock' = Mutex_lock(lock, BlockOf(fut[t]), t)
    /\ fut' = [fut EXCEPT ![t].pc = "locked"]
    /\ UNCHANGED <<hist, db, cache, ret, ops, written, durable>>

\* under the guard: the read or the mutation, then the guard is dropped
Apply(t) ==
    /\ fut[t].pc = "locked"
    /\ \E sp \in {NodePos_split[fut[t].pos]} :
          IF fut[t].op = "get_node"
          THEN /\ cache' = cache
               /\ ret' = [op |-> "get_node", pos |-> fut[t].pos,
                          res |-> [ok |-> TRUE, loaded |-> ~fut[t].before.present,
                                   node |-> BlockEdit_get_node(cache[Writer][sp.block], sp.node)]]
          ELSE /\ cache' = [cache EXCEPT ![Writer][sp.block] =
                                 BlockEdit_set(@, fut[t].op, sp.node, fut[t].arg)]
               /\ ret' = [op |-> fut[t].op, pos |-> fut[t].pos, arg |-> fut[t].arg,
                          res |-> [ok |-> TRUE, loaded |-> ~fut[t].before.present]]
    /\ lock' = Mutex_unlock(lock, BlockOf(fut[t]), t)
    /\ fut' = [fut EXCEPT ![t] = Idle]
    /\ UNCHANGED <<hist, db, ops, written, durable>>

\* a task calls commit: the iteration over the entries begins
CommitCall(t) ==
    /\ ops < MaxOps
    /\ fut[t] = Idle
    /\ ~MapEdit_borrowed(fut)
    /\ \E order \in Orders(Cached(Writer)) :
          IF order = <<>>
          THEN /\ fut' = fut
               /\ ret' = [op |-> "commit", res |-> [ok |-> TRUE, puts |-> <<>>]]
          ELSE /\ fut' = [fut EXCEPT ![t] = [pc |-> "iter", op |-> "commit", order |-> order,
                                             i |-> 1, puts |-> <<>>]]
               /\ ret' = ret
    /\ ops' = ops + 1
    /\ UNCHANGED <<hist, db, cache, written, durable, lock>>

\* the commit of task t moves on to the next entry, or returns Ok
CommitAdvance(t, puts) ==
    IF fut[t].i = Len(fut[t].order)
    THEN /\ fut' = [fut EXCEPT ![t] = Idle]
         /\ ret' = [op |-> "commit", res |-> [ok |-> TRUE, puts |-> puts]]
    ELSE /\ fut' = [fut EXCEPT ![t] = [pc |-> "iter", op |-> "commit", order |-> fut[t].order,
                                        i |-> fut[t].i + 1, puts |-> puts]]
         /\ ret' = ret

\* commit locks the entry it has come to and tests the flag; a tainted entry
\* is handed to set_mapblock under the guard, a clean one is let go
CommitAcquire(t) ==
    /\ fut[t].pc = "iter"
    /\ Mutex_free(lock, fut[t].order[fut[t].i])
    /\ IF cache[Writer][fut[t].order[fut[t].i]].tainted
       THEN /\ lock' = Mutex_lock(lock, fut[t].order[fut[t].i], t)
            /\ fut' = [fut EXCEPT ![t] =
                          [pc |-> "put", op |-> "commit", order |-> fut[t].order, i |-> fut[t].i,
                           puts |-> fut[t].puts,
                           sent |-> MapBlock_to_data(cache[Writer][fut[t].order[fut[t].i]].mapblock)]]
            /\ ret' = ret
       ELSE /\ lock' = lock
            /\ CommitAdvance(t, fut[t].puts)
    /\ UNCHANGED <<hist, db, cache, ops, written, durable>>

\* the backend answers the write: on Ok the flag is cleared and the guard
\* dropped at the end of the loop body; on Err commit returns through `?`
CommitPutDone(t) ==
    /\ fut[t].pc = "put"
    /\ \E io \in BOOLEAN, b \in {fut[t].order[fut[t].i]} :
          \E w \in {MapData_set_mapblock(db, b, cache[Writer][b].mapblock, io)} :
              /\ db' = w.db
              /\ IF w.ok
                 THEN /\ cache' = [cache EXCEPT ![Writer][b].tainted = FALSE]
                      /\ CommitAdvance(t, Append(fut[t].puts, [pos |-> b, data |-> w.db[b].data]))
                 ELSE /\ cache' = cache
                      /\ fut' = [fut EXCEPT ![t] = Idle]
                      /\ ret' = [op |-> "commit", res |-> [ok |-> FALSE, puts |-> fut[t].puts]]
              /\ lock' = Mutex_unlock(lock, b, t)
    /\ UNCHANGED <<hist, ops, written, durable>>

\* the future is dropped where it awaits the backend; the guard it holds
\* goes with it.  A write handed to the backend may or may not have been
\* carried out.
Abandon(t) ==
    /\ fut[t].pc \in {"load", "put"}
    /\ fut' = [fut EXCEPT ![t] = Idle]
    /\ lock' = [b \in BlockPositions |-> lock[b] \ {t}]
    /\ ret' = [op |-> "abandoned", call |-> fut[t]]
    /\ \E landed \in (IF fut[t].pc = "put" THEN BOOLEAN ELSE {FALSE}) :
          db' = IF landed
                THEN MapData_set_mapblock(db, fut[t].order[fut[t].i],
                                          cache[Writer][fut[t].order[fut[t].i]].mapblock, FALSE).db
                ELSE db
    /\ UNCHANGED <<hist, cache, ops, written, durable>>

AsyncNext ==
    \E t \in Tasks :
        \/ CommitCall(t)
        \/ CommitAcquire(t)
        \/ CommitPutDone(t)
        \/ LoadDone(t)
        \/ Acquire(t)
        \/ Apply(t)
        \/ Abandon(t)
        \/ \E op \in Calls, p \in WorldPositions : Call(t, op, p)
AsyncSpec == SoloInit /\ [][AsyncNext]_vars

(***************************************************************************)
(* Properties of the calls in flight, over AsyncSpec.                      *)
(***************************************************************************)
\* C13: while a set_* call on block A is suspended, awaiting the backend
\* load of A or A's lock, another task can start a set_* call on a
\* different block B of the same edit cache
C13_SettersDoNotBlock ==
    \A t \in Tasks : \A u \in Tasks \ {t}, p \in WorldPositions, op \in Setters :
        (/\ fut[t].pc \in {"load", "lock"}
         /\ fut[t].op \in Setters
         /\ NodePos_split[p].block # BlockOf(fut[t])
         /\ fut[u] = Idle
         /\ ops < MaxOps) =>
            ENABLED Call(u, op, p)

\* the node n shows what the setter `op` was called with
SetterHolds(op, arg, n) ==
    IF op = "set_node" THEN n = arg
    ELSE IF op = "set_content" THEN n.param0 = arg
    ELSE IF op = "set_param1" THEN n.param1 = arg
    ELSE n.param2 = arg

\* C14: at most one call at a time holds the lock of a block; every read
\* and every mutation of a cached block and of its dirty flag is made by the
\* holder; commit holds the lock from testing the flag through the backend
\* write to clearing the flag.  So a write carries the block as it is, a
\* setter's mutation is in the block and marked dirty when the setter
\* returns, and a flag is cleared only on the block that was written.
C14_BlockMutex ==
    [][/\ \A b \in BlockPositions : Cardinality(lock'[b]) <= 1
       /\ \A t \in Tasks :
             /\ fut'[t].pc = "locked" => lock'[BlockOf(fut'[t])] = {t}
             /\ fut'[t].pc = "put" =>
                   /\ lock'[fut'[t].order[fut'[t].i]] = {t}
                   /\ cache'[Writer][fut'[t].order[fut'[t].i]].tainted
                   /\ fut'[t].sent = MapBlock_to_data(cache'[Writer][fut'[t].order[fut'[t].i]].mapblock)
       /\ \A b \in BlockPositions :
             (cache[Writer][b].present /\ cache'[Writer][b] # cache[Writer][b]) =>
                \E t \in Tasks :
                    /\ lock[b] = {t}
                    /\ \/ /\ fut[t].pc = "locked" /\ fut[t].op \in Setters /\ BlockOf(fut[t]) = b
                          /\ cache'[Writer][b].tainted
                          /\ SetterHolds(fut[t].op, fut[t].arg,
                                         MapBlock_get_node_at(cache'[Writer][b].mapblock,
                                                              NodePos_split[fut[t].pos].node))
                       \/ /\ fut[t].pc = "put" /\ fut[t].order[fut[t].i] = b
                          /\ cache'[Writer][b] = BlockEdit(cache[Writer][b].mapblock, FALSE)
                          /\ db'[b] = Row(fut[t].sent)
       /\ \A b \in BlockPositions :
             db'[b] # db[b] =>
                \E t \in Tasks :
                    /\ lock[b] = {t}
                    /\ fut[t].pc = "put" /\ fut[t].order[fut[t].i] = b
                    /\ db'[b] = Row(MapBlock_to_data(cache[Writer][b].mapblock))
       /\ \A t \in Tasks :
             (fut[t].pc = "locked" /\ fut[t].op = "get_node" /\ fut'[t] = Idle) =>
                /\ lock[BlockOf(fut[t])] = {t}
                /\ ret'.res.node = BlockEdit_get_node(cache[Writer][BlockOf(fut[t])],
                                                      NodePos_split[fut[t].pos].node)
      ]_vars

\* a commit awaits the backend write of a block under that block's lock,
\* after a setter has returned
C14_Witness ==
    /\ ret.op \in Setters
    /\ \E t \in Tasks :
          /\ fut[t].pc = "put"
          /\ lock[fut[t].order[fut[t].i]] = {t}
          /\ fut[t].order[fut[t].i] = NodePos_split[ret.pos].block

\* C18: a get_node, set_* or visit that fails on a backend error, or is
\* abandoned where it awaits the load, leaves the backend and every other
\* entry unchanged, and for its own coordinate either no entry or the entry
\* exactly as before the call; a failed load leaves no entry (no unloaded
\* block is substituted) and the next call on the coordinate loads again.
\* A setter applies whole or not at all: an entry changes only by a setter
\* that returns Ok, which leaves content, param1, param2 and the dirty flag
\* set together, or by commit clearing the flag.
C18_FailureLeavesState ==
    [][/\ \A t \in Tasks :
             (/\ fut[t] # Idle /\ fut[t].op \in Calls /\ fut'[t] = Idle
              /\ (ret'.op = "abandoned" \/ ~ret'.res.ok)) =>
                /\ db' = db
                /\ \A b \in BlockPositions \ {BlockOf(fut[t])} : cache'[Writer][b] = cache[Writer][b]
                /\ \/ ~cache'[Writer][BlockOf(fut[t])].present
                   \/ /\ fut[t].before.present
                      /\ cache'[Writer][BlockOf(fut[t])] = fut[t].before
                /\ ret'.op # "abandoned" =>
                      /\ ~cache'[Writer][BlockOf(fut[t])].present
                      /\ ~MapEdit_is_in_cache(cache'[Writer], fut[t].pos)
       /\ \A t \in Tasks :
             (fut[t] = Idle /\ fut'[t] # Idle /\ fut'[t].op \in Calls
              /\ ~cache[Writer][BlockOf(fut'[t])].present) => fut'[t].pc = "load"
       /\ \A b \in BlockPositions :
             (cache[Writer][b].present /\ cache'[Writer][b] # cache[Writer][b]) =>
                \/ \E t \in Tasks :
                      /\ fut[t].pc = "locked" /\ fut[t].op \in Setters /\ fut'[t] = Idle
                      /\ ret'.op = fut[t].op /\ ret'.res.ok
                      /\ BlockOf(fut[t]) = b
                      /\ cache'[Writer][b].tainted
                      /\ SetterHolds(fut[t].op, fut[t].arg,
                                     MapBlock_get_node_at(cache'[Writer][b].mapblock,
                                                          NodePos_split[fut[t].pos].node))
                \/ /\ \E t \in Tasks : fut[t] # Idle /\ fut[t].op = "commit" /\ fut[t].pc = "put"
                   /\ ~cache'[Writer][b].tainted
                   /\ cache'[Writer][b].mapblock = cache[Writer][b].mapblock
      ]_vars

\* a set_node on a block the backend stores has failed at its load, while
\* another entry of the cache is dirty: the block has no entry
C18_Witness ==
    /\ ret.op = "set_node"
    /\ ~ret.res.ok
    /\ ret.io
    /\ db[NodePos_split[ret.pos].block].present
    /\ ~MapEdit_is_in_cache(cache[Writer], ret.pos)
    /\ \E b \in BlockPositions : cache[Writer][b].present /\ cache[Writer][b].tainted

====
